---- MODULE Spec2Model ----
\* Verification model of the HFL110DCU image processor
\* (src/src/image_processor/hfl110dcu.cpp): the frame row assembler, the
\* row decoder, the point cloud projection and the object list assembler.
EXTENDS Integers, Sequences, FiniteSets, TLC

\* ---------------------------------------------------------------- constants

\* hfl::FRAME_ROWS, hfl::FRAME_COLUMNS
FRAME_ROWS == 32
FRAME_COLUMNS == 128

\* Number of frames the modelled sensor sends before it falls silent.
MaxFrames == 2

\* The network loses, repeats and reorders packets only while the sensor
\* sends its first LossyFrames frames; later frames arrive as sent.
LossyFrames == 1

\* How many packets back the network may deliver a packet again or late.
LateWindow == 2

\* The test patterns carry the raw range words within RawSpan of the 49 m
\* limit, and the driver is given the global range offsets within OffsetSpan
\* offset units of zero (besides a few values far from both).
RawSpan == 2
OffsetSpan == 2

\* Number of object packets the modelled sensor sends, and the largest
\* number of records it puts in one.
MaxObjPackets == 3
MaxRecords == 12

\* Number of object cycles the modelled sensor sends as two fragments each.
MaxCycles == 3

\* Number of telemetry packets the modelled sensors send, and the highest
\* serial-number seed among the sensors.
MaxTelePackets == 4
SerialSpan == 25

\* Number of packets, over all channels, sent to a driver that listens on
\* all of them.
MixCalls == 5

\* Sentinel written for a range above 49 m (NAN); no decoded range equals it.
NAN == -1073741824

\* Fractional bits in which a global range offset is given (the offset is a
\* double; the model holds it as an integer count of 2^-OFFSET_FRAC_BITS raw
\* range units, so that raw + offset is an exact integer).
OFFSET_FRAC_BITS == 11

Pow2(n) == 2 ^ n

\* Byte offsets of processFrameData and the start byte handed to parseFrame.
FRAME_NUM_OFFSET == 12
ROW_OFFSET == 16
FRAME_START_BYTE == 92
INTENSITY_BLOCK == 512
CLASS_BLOCK == 1152
\* One byte past the last byte parseFrame reads: 92 + 1152 + 127 + 1.
FRAME_PACKET_LEN == FRAME_START_BYTE + CLASS_BLOCK + FRAME_COLUMNS

\* Byte offsets of processObjectData, the start byte handed to parseObjects,
\* the stride of its loop and the record counts at which it stops.
OBJECT_FLAG_OFFSET == 10
OBJECT_START_BYTE == 14
OBJECT_RECORD_LEN == 129
FIRST_PACKET_OBJECTS == 11
SECOND_PACKET_OBJECTS == 20

\* Telemetry packet: offset of the serial-number field and its last index.
SERIAL_OFFSET == 41
SERIAL_LAST == 25
TELEMETRY_LEN == SERIAL_OFFSET + SERIAL_LAST + 1

VARIABLES
  version_,          \* HflInterface::version_
  expected_packet_,  \* HFL110DCU::expected_packet_
  global_offset_,    \* HflInterface::global_offset_
  objects_,          \* HFL110DCU::objects_, the object records collected
  p_image,           \* the ten cv images (p_image_depth_ ...): <<>> while the
                     \* pointers are null, else the rows, <<>> for a row that
                     \* was not written since the allocation
  pointcloud_,       \* *pointcloud_: the header it was given
  ci,                \* the camera info held by camera_info_manager_
  transform_,        \* HFL110DCU::transform_, the ray table
  global_tf_,        \* HFL110DCU::global_tf_, the pose
  hdr,               \* the header messages: frame (shared with the telemetry
                     \* header), object, tf
  pub,               \* what was last handed to the publishers: the headers, the
                     \* pose, the images and ray table of the point cloud, and
                     \* the marker array
  call,              \* the handler call of the last step (the row it computed,
                     \* what it returned, logged and published), if it made one
  wlog,              \* history of the frame in flight: <<frame counter, row>> of
                     \* every row written since the images were last allocated,
                     \* and whether a call has reported an unexpected packet since
  inorder,           \* history: the run of calls that ingested rows 31, 30, ...
  net,               \* number of frame packets the sensor has sent
  onet,              \* number of object packets the sensor has sent
  probe,             \* the raw range word and classification byte of the
                     \* sensor's test pattern
  tuning,            \* the intrinsics the sensor reports in the frame it sends
  tnet,              \* number of telemetry packets the sensor has sent
  override,          \* HflInterface::extrinsics_reconfigured_, x_, y_, z_,
                     \* roll_, pitch_, yaw_
  telem_             \* HFL110DCU::telem_, the telemetry record

vars == <<version_, expected_packet_, global_offset_, objects_, p_image,
          pointcloud_, ci, transform_, global_tf_, hdr, pub, call, wlog,
          inorder, net, onet, probe, tuning, tnet, override, telem_>>

\* The state of the driver without the record of the last call.
driver == <<version_, expected_packet_, global_offset_, objects_, p_image,
            pointcloud_, ci, transform_, global_tf_, hdr, pub, wlog,
            override, telem_>>

\* ------------------------------------------------------------------ sensor

\* Byte j (0 first) of a 32-bit value sent big-endian, and sent in the
\* sensor's float byte order (low byte first).
BigByte(v, j) == (v \div Pow2(8 * (3 - j))) % 256
LowByte(v, j) == (v \div Pow2(8 * j)) % 256

\* The 17 float fields at offsets 20..87 in the packets of frame k, as bit
\* patterns: nine intrinsics, two intrinsic angles, six extrinsics (yaw,
\* pitch, roll, z, y, x), the extrinsics differing from frame to frame.
SensorCalibration(k) ==
  <<501, 502, 64, 16, 3, 4, 5, 6, 7, 8, 9,
    10 * k + 1, 10 * k + 2, 10 * k + 3, 10 * k + 4, 10 * k + 5, 10 * k + 6>>

\* The raw words and the classification byte of pixel (r, c) in frame k: the
\* ranges run through the 49 m limit (12544), the intensities name the frame,
\* row, column and return, the classification runs through every byte value.
SensorRange(k, r, c, return) ==
  IF return = 1 THEN 4 * (FRAME_COLUMNS * r + c) ELSE 12800 - 2 * c - k
SensorIntensity(k, r, c, return) ==
  IF return = 1 THEN 4096 * k + FRAME_COLUMNS * r + c
  ELSE 65535 - (4096 * k + FRAME_COLUMNS * r + c)
SensorClass(k, r, c) == (FRAME_COLUMNS * r + c + k) % 256

\* Byte i of the packet that carries row r of frame k.
SensorFrameByte(k, r, i) ==
  IF i >= FRAME_NUM_OFFSET /\ i < FRAME_NUM_OFFSET + 4
    THEN BigByte(k, i - FRAME_NUM_OFFSET)
  ELSE IF i >= ROW_OFFSET /\ i < ROW_OFFSET + 4
    THEN BigByte(FRAME_ROWS - 1 - r, i - ROW_OFFSET)
  ELSE IF i >= 20 /\ i < 88
    THEN LowByte(SensorCalibration(k)[((i - 20) \div 4) + 1], (i - 20) % 4)
  ELSE IF i >= FRAME_START_BYTE /\ i < FRAME_START_BYTE + INTENSITY_BLOCK
    THEN LET o == i - FRAME_START_BYTE
             word == SensorRange(k, r, o \div 4, ((o % 4) \div 2) + 1)
         IN IF o % 2 = 0 THEN word \div 256 ELSE word % 256
  ELSE IF i >= FRAME_START_BYTE + INTENSITY_BLOCK
          /\ i < FRAME_START_BYTE + 2 * INTENSITY_BLOCK
    THEN LET o == i - FRAME_START_BYTE - INTENSITY_BLOCK
             word == SensorIntensity(k, r, o \div 4, ((o % 4) \div 2) + 1)
         IN IF o % 2 = 0 THEN word \div 256 ELSE word % 256
  ELSE IF i >= FRAME_START_BYTE + CLASS_BLOCK /\ i < FRAME_PACKET_LEN
    THEN SensorClass(k, r, i - FRAME_START_BYTE - CLASS_BLOCK)
  ELSE 0

\* The first len bytes of that packet: a std::vector<uint8_t> of size len,
\* named by what the sensor put in it.
SensorFramePacket(k, r, len) == [len |-> len, kind |-> "frame", k |-> k, r |-> r]

\* The nine intrinsics (fx, fy, ux, uy, r1, r2, t1, t2, r4) the sensor reports
\* under tuning set: set 0 is that of SensorCalibration, set 1 differs from it
\* in fx, set 2 in fy alone.
SensorIntrinsics(set) ==
  <<501 + (IF set = 1 THEN 10 ELSE 0), 502 + (IF set = 2 THEN 10 ELSE 0),
    64, 16, 3, 4, 5, 6, 7>>

\* Byte i of the packet that carries row r of frame k while the sensor
\* reports the intrinsics of tuning set.
TunedFrameByte(set, k, r, i) ==
  IF i >= 20 /\ i < 56
    THEN LowByte(SensorIntrinsics(set)[((i - 20) \div 4) + 1], (i - 20) % 4)
  ELSE SensorFrameByte(k, r, i)

TunedFramePacket(set, k, r, len) ==
  [len |-> len, kind |-> "tuned", k |-> k, r |-> r, set |-> set]

\* Byte i of the test pattern packet: the start-of-frame packet (row field
\* 0) of a frame whose pixels all carry the range word raw in both returns
\* and the classification byte class, everything else zero.
PatternByte(raw, class, i) ==
  IF i >= FRAME_START_BYTE /\ i < FRAME_START_BYTE + INTENSITY_BLOCK
    THEN IF i % 2 = 0 THEN raw \div 256 ELSE raw % 256
  ELSE IF i >= FRAME_START_BYTE + CLASS_BLOCK /\ i < FRAME_PACKET_LEN
    THEN class
  ELSE 0

PatternPacket(raw, class) ==
  [len |-> FRAME_PACKET_LEN, kind |-> "pattern", raw |-> raw, class |-> class]

\* Byte i of object packet number id, whose 32-bit word at OBJECT_FLAG_OFFSET
\* is word: the records follow from OBJECT_START_BYTE, OBJECT_RECORD_LEN
\* bytes each, every 4-byte field of record j holding id, j and its number.
SensorObjectByte(id, word, i) ==
  IF i >= OBJECT_FLAG_OFFSET /\ i < OBJECT_FLAG_OFFSET + 4
    THEN BigByte(word, i - OBJECT_FLAG_OFFSET)
  ELSE IF i >= OBJECT_START_BYTE
    THEN LET j == (i - OBJECT_START_BYTE) \div OBJECT_RECORD_LEN
             o == (i - OBJECT_START_BYTE) % OBJECT_RECORD_LEN
         IN IF o % 4 = 0 THEN o \div 4
            ELSE IF o % 4 = 1 THEN j
            ELSE IF o % 4 = 2 THEN id
            ELSE 0
  ELSE 0

\* The first len bytes of object packet id.
SensorObjectPacket(id, word, len) ==
  [len |-> len, kind |-> "object", id |-> id, word |-> word]

\* The size of an object packet with n whole records.
ObjectPacketLen(n) == OBJECT_START_BYTE + n * OBJECT_RECORD_LEN

\* The serial number (26 characters, index 0 first) of the sensor with the
\* given seed: letters, no two sensors alike, none a palindrome.
SensorSerial(seed) == [k \in 0..SERIAL_LAST |-> 65 + ((seed + k) % 26)]

\* Byte i of telemetry packet number id of that sensor: the hardware
\* revision and frame counter big-endian, nine float fields, the feedback
\* byte, and the serial number with its last character first.
SensorTelemetryByte(id, seed, i) ==
  IF i < 4 THEN BigByte(seed + 1, i)
  ELSE IF i >= 12 /\ i < 16 THEN BigByte(id, i - 12)
  ELSE IF i < 40 THEN LowByte(100 * id + i \div 4, i % 4)
  ELSE IF i = 40 THEN id
  ELSE IF i < TELEMETRY_LEN THEN SensorSerial(seed)[SERIAL_LAST - (i - SERIAL_OFFSET)]
  ELSE 0

\* The first len bytes of that packet.
SensorTelemetryPacket(id, seed, len) ==
  [len |-> len, kind |-> "telemetry", id |-> id, seed |-> seed]

\* Byte i (i < p.len) of packet p.
PacketByte(p, i) ==
  IF p.kind = "frame" THEN SensorFrameByte(p.k, p.r, i)
  ELSE IF p.kind = "pattern" THEN PatternByte(p.raw, p.class, i)
  ELSE IF p.kind = "tuned" THEN TunedFrameByte(p.set, p.k, p.r, i)
  ELSE IF p.kind = "telemetry" THEN SensorTelemetryByte(p.id, p.seed, i)
  ELSE SensorObjectByte(p.id, p.word, i)

\* The n-th packet the sensor sends (n from 0): frames 1, 2, ..., each as
\* rows 31 down to 0.
NthPacket(n) ==
  SensorFramePacket((n \div FRAME_ROWS) + 1, FRAME_ROWS - 1 - (n % FRAME_ROWS),
                    FRAME_PACKET_LEN)

\* ------------------------------------------------------------ byte decoding

\* packet[i] of a std::vector<uint8_t> of p.len bytes.  An index at or past
\* the end is read without a check: the byte found there is whatever the
\* memory holds, given as ub.
At(p, i, ub) == IF i < p.len THEN PacketByte(p, i) ELSE ub

\* The other outcome of a read past the end: the process is killed.
FAULT == -1

\* What a read past the end does: it kills the process, or it finds a zero
\* byte.
PastEnd == {FAULT, 0}

\* big_to_native(uint16_t): ntohs of the two bytes at off, first byte high.
BE16(p, off, ub) == At(p, off, ub) * 256 + At(p, off + 1, ub)

\* big_to_native(uint32_t): ntohl of the four bytes at off, first byte high.
BE32(p, off, ub) ==
  ((At(p, off, ub) * 256 + At(p, off + 1, ub)) * 256 + At(p, off + 2, ub)) * 256
    + At(p, off + 3, ub)

\* *reinterpret_cast<const float*>(&packet[off]): the four bytes in host
\* order, not swapped.  The model keeps a float field as the 32-bit pattern
\* read low byte first (the host is little-endian).
F32(p, off, ub) ==
  ((At(p, off + 3, ub) * 256 + At(p, off + 2, ub)) * 256 + At(p, off + 1, ub)) * 256
    + At(p, off, ub)

\* ------------------------------------------------------ single precision

\* Number of low bits a magnitude m loses when held in a 24-bit significand.
RECURSIVE LostBits(_)
LostBits(m) == IF m < Pow2(24) THEN 0 ELSE 1 + LostBits(m \div 2)

\* float(x) of a double x = n * 2^-k: round to nearest, ties to even, on a
\* 24-bit significand (the unit 2^-k is kept, so the result is an integer).
FloatRound(n) ==
  LET m == IF n < 0 THEN -n ELSE n
      s == LostBits(m)
      q == m \div Pow2(s)
      rem == m % Pow2(s)
      up == s > 0 /\ (2 * rem > Pow2(s) \/ (2 * rem = Pow2(s) /\ q % 2 = 1))
      rounded == (IF up THEN q + 1 ELSE q) * Pow2(s)
  IN IF n < 0 THEN -rounded ELSE rounded

\* 49.0 in the unit the model keeps ranges in: 2^-(8 + OFFSET_FRAC_BITS) m.
RANGE_UNIT == 256 * Pow2(OFFSET_FRAC_BITS)
MAX_RANGE_M == 49

\* range = (global_offset_ + float(raw)) / 256.0, stored in a float, then
\* replaced by NAN if larger than 49.0.  offset is global_offset_ in units of
\* 2^-OFFSET_FRAC_BITS; the result is in units of 1 / RANGE_UNIT metres.
DecodeRange_AtLimit(raw, offset) ==
  LET range == FloatRound(offset + raw * Pow2(OFFSET_FRAC_BITS))
  IN IF range >= MAX_RANGE_M * RANGE_UNIT THEN NAN ELSE range

DecodeRange(raw, offset) ==
  LET range == FloatRound(offset + raw * Pow2(OFFSET_FRAC_BITS))
  IN IF range > MAX_RANGE_M * RANGE_UNIT THEN NAN ELSE range

\* ((classification >> bit) & 1) * 255
ClassFlag_NextBit(classification, bit) == ((classification \div Pow2(bit + 1)) % 2) * 255
ClassFlag(classification, bit) == ((classification \div Pow2(bit)) % 2) * 255

\* The three flag images of return 1 (bits 0, 1, 3) and of return 2 (4, 5, 7).
DecodeClass_Bit6(classification) ==
  [crosstalk    |-> ClassFlag(classification, 0),
   saturated    |-> ClassFlag(classification, 1),
   superimposed |-> ClassFlag(classification, 3),
   crosstalk2   |-> ClassFlag(classification, 4),
   saturated2   |-> ClassFlag(classification, 5),
   superimposed2 |-> ClassFlag(classification, 6)]

DecodeClass(classification) ==
  [crosstalk    |-> ClassFlag(classification, 0),
   saturated    |-> ClassFlag(classification, 1),
   superimposed |-> ClassFlag(classification, 3),
   crosstalk2   |-> ClassFlag(classification, 4),
   saturated2   |-> ClassFlag(classification, 5),
   superimposed2 |-> ClassFlag(classification, 7)]

\* One pass of parseFrame's loop: the ten image values of column col.
ParsePixel_SwappedReturns(start_byte, packet, col, offset, ub) ==
  LET flags == DecodeClass(At(packet, start_byte + CLASS_BLOCK + col, ub))
  IN [depth      |-> DecodeRange(BE16(packet, start_byte + col * 4 + 2, ub), offset),
      depth2     |-> DecodeRange(BE16(packet, start_byte + col * 4, ub), offset),
      intensity  |-> BE16(packet, start_byte + INTENSITY_BLOCK + col * 4, ub),
      intensity2 |-> BE16(packet, start_byte + INTENSITY_BLOCK + col * 4 + 2, ub),
      crosstalk    |-> flags.crosstalk,
      saturated    |-> flags.saturated,
      superimposed |-> flags.superimposed,
      crosstalk2   |-> flags.crosstalk2,
      saturated2   |-> flags.saturated2,
      superimposed2 |-> flags.superimposed2]

ParsePixel(start_byte, packet, col, offset, ub) ==
  LET flags == DecodeClass(At(packet, start_byte + CLASS_BLOCK + col, ub))
  IN [depth      |-> DecodeRange(BE16(packet, start_byte + col * 4, ub), offset),
      depth2     |-> DecodeRange(BE16(packet, start_byte + col * 4 + 2, ub), offset),
      intensity  |-> BE16(packet, start_byte + INTENSITY_BLOCK + col * 4, ub),
      intensity2 |-> BE16(packet, start_byte + INTENSITY_BLOCK + col * 4 + 2, ub),
      crosstalk    |-> flags.crosstalk,
      saturated    |-> flags.saturated,
      superimposed |-> flags.superimposed,
      crosstalk2   |-> flags.crosstalk2,
      saturated2   |-> flags.saturated2,
      superimposed2 |-> flags.superimposed2]

\* parseFrame: the image row it writes at row_.  The row is kept as what the
\* loop decodes it from (the packet, the start byte, global_offset_ and what
\* the reads past the end found); PixelAt gives the pixel the loop wrote at
\* column col.
ParseFrame(start_byte, packet, offset, ub) ==
  [start_byte |-> start_byte, packet |-> packet, offset |-> offset, ub |-> ub]

PixelAt(line, col) == ParsePixel(line.start_byte, line.packet, col, line.offset, line.ub)

\* ------------------------------------------------------------ frame handler

Rows == 0..(FRAME_ROWS - 1)

\* row_ = FRAME_ROWS - 1 - big_to_native(field at 16).  The packets of the
\* model keep the field within 0..FRAME_ROWS, where the result is a row of
\* the image or (field = FRAME_ROWS) a value that equals no expected row.
RowOf_Field(field) == field
RowOf(field) == FRAME_ROWS - 1 - field

\* The intrinsics and extrinsics processFrameData reads from a first packet.
ReadCalibration(frame_data, ub) ==
  [fx |-> F32(frame_data, 20, ub), fy |-> F32(frame_data, 24, ub),
   ux |-> F32(frame_data, 28, ub), uy |-> F32(frame_data, 32, ub),
   r1 |-> F32(frame_data, 36, ub), r2 |-> F32(frame_data, 40, ub),
   t1 |-> F32(frame_data, 44, ub), t2 |-> F32(frame_data, 48, ub),
   r4 |-> F32(frame_data, 52, ub),
   intrinsic_yaw   |-> F32(frame_data, 56, ub),
   intrinsic_pitch |-> F32(frame_data, 60, ub),
   extrinsic_yaw   |-> F32(frame_data, 64, ub),
   extrinsic_pitch |-> F32(frame_data, 68, ub),
   extrinsic_roll  |-> F32(frame_data, 72, ub),
   extrinsic_z |-> F32(frame_data, 76, ub),
   extrinsic_y |-> F32(frame_data, 80, ub),
   extrinsic_x |-> F32(frame_data, 84, ub)]

\* global_tf_ as the first packet sets it: the translation, and the rotation
\* q_orig * q_rot normalised, kept as the angles q_orig was built from.
PoseOf_Stale(cal, tf) == tf

PoseOf(cal, tf) ==
  [tf EXCEPT !.x = cal.extrinsic_x, !.y = cal.extrinsic_y, !.z = cal.extrinsic_z,
             !.roll = cal.extrinsic_roll, !.pitch = cal.extrinsic_pitch,
             !.yaw = cal.extrinsic_yaw]

\* The camera info after the sensor's intrinsics were written into it.
CameraInfoOf(cal) ==
  [K0 |-> cal.fx, K2 |-> cal.ux, K4 |-> cal.fy, K5 |-> cal.uy,
   D |-> <<cal.r1, cal.r2, cal.t1, cal.t2, 0, cal.r4, 0, 0>>]

\* initTransform: the ray table of a camera matrix and distortion vector,
\* kept as the parameters it was computed from.
InitTransform(info) ==
  [valid |-> TRUE, K0 |-> info.K0, K2 |-> info.K2, K4 |-> info.K4,
   K5 |-> info.K5, D |-> info.D]

\* The check of the camera info against the sensor's focal length.
IntrinsicsDiffer(info, cal) == info.K0 # cal.fx

\* transform_.at<cv::Vec3f>(col, row) * range: the ray of the table, named by
\* its pixel, and the range that scales it.
Project(table, col, row, range) == <<col, row, range>>

\* The two records the projection loop writes for pixel (row, col): return 1,
\* then return 2.
PixelPoints_Return2First(image, table, row, col) ==
  LET px == PixelAt(image[row], col)
  IN << [xyz |-> Project(table, col, row, px.depth2), intensity |-> px.intensity2,
         return |-> 2, crosstalk |-> px.crosstalk2, saturated |-> px.saturated2,
         superimposed |-> px.superimposed2],
        [xyz |-> Project(table, col, row, px.depth), intensity |-> px.intensity,
         return |-> 1, crosstalk |-> px.crosstalk, saturated |-> px.saturated,
         superimposed |-> px.superimposed] >>

PixelPoints(image, table, row, col) ==
  LET px == PixelAt(image[row], col)
  IN << [xyz |-> Project(table, col, row, px.depth), intensity |-> px.intensity,
         return |-> 1, crosstalk |-> px.crosstalk, saturated |-> px.saturated,
         superimposed |-> px.superimposed],
        [xyz |-> Project(table, col, row, px.depth2), intensity |-> px.intensity2,
         return |-> 2, crosstalk |-> px.crosstalk2, saturated |-> px.saturated2,
         superimposed |-> px.superimposed2] >>

\* The records the inner loop writes for columns lo..hi-1 of a row, and the
\* outer loop for rows lo..hi-1, in the order the iterators are advanced:
\* those of the lower half of the range before those of the upper half.
RECURSIVE RowPoints(_, _, _, _, _)
RowPoints(image, table, row, lo, hi) ==
  IF hi - lo = 1 THEN PixelPoints(image, table, row, lo)
  ELSE LET mid == (lo + hi) \div 2
       IN RowPoints(image, table, row, lo, mid) \o RowPoints(image, table, row, mid, hi)

RECURSIVE FramePoints(_, _, _, _)
FramePoints(image, table, lo, hi) ==
  IF hi - lo = 1 THEN RowPoints(image, table, lo, 0, FRAME_COLUMNS)
  ELSE LET mid == (lo + hi) \div 2
       IN FramePoints(image, table, lo, mid) \o FramePoints(image, table, mid, hi)

\* The point cloud handed to pub_points_: what the projection loop wrote from
\* the published images and ray table.
PublishedPoints == FramePoints(pub.image, pub.table, 0, FRAME_ROWS)

\* cv::Mat(FRAME_ROWS, FRAME_COLUMNS, type): allocated, no row written yet.
NewImages == [r \in Rows |-> <<>>]

\* The continuity check: the packet is not the expected one.
Unexpected_OnlyAhead(row, expected) == row > expected
Unexpected_OnlyBehind(row, expected) == row < expected
Unexpected(row, expected) == row # expected

\* expected_packet_ after an accepted packet.
NextExpected_SkipZero(expected) == IF expected > 1 THEN expected - 1 ELSE FRAME_ROWS - 1
NextExpected_NoWrap(expected) == expected - 1
NextExpected_Stuck(expected) == expected
NextExpected(expected) == IF expected > 0 THEN expected - 1 ELSE FRAME_ROWS - 1

\* expected_packet_ after an unexpected packet.
ResetExpected_Second == FRAME_ROWS - 2
ResetExpected == FRAME_ROWS - 1

\* What a call that published nothing and logged nothing reports.
Quiet(op) ==
  [op |-> op, packet |-> <<>>, size |-> 0, past |-> FALSE, ret |-> TRUE, fault |-> FALSE,
   row |-> -1, error |-> <<>>, frames |-> 0, poses |-> 0, batches |-> 0,
   word |-> 0, tables |-> 0]

\* A call with a packet of the given size that published and logged nothing;
\* past tells whether it read past the end of the packet.
QuietCall(op, packet, past) ==
  [Quiet(op) EXCEPT !.packet = packet, !.size = packet.len, !.past = past]

\* The call during which a read past the end killed the process.
Killed(op, packet) == [QuietCall(op, packet, TRUE) EXCEPT !.fault = TRUE]

\* The headers after the first packet of a frame stamped them.
StampFrame(h, now) ==
  [h EXCEPT !.frame.stamp = now, !.object.stamp = now, !.tf.stamp = now]

\* Whether processFrameData reads past the end of frame_data: the two header
\* fields always, the row (and, in a first packet, the calibration before
\* it) when the packet is the expected one.
FrameReadsPast(frame_data) ==
  \/ frame_data.len < ROW_OFFSET + 4
  \/ /\ RowOf(BE32(frame_data, ROW_OFFSET, 0)) = expected_packet_
     /\ frame_data.len < FRAME_PACKET_LEN

\* if (version_ == "v1"): the version whose frame packets processFrameData
\* ingests.
FrameVersion_Any(version) == TRUE
FrameVersion(version) == version = "v1"

\* Whether parseFrame writes through null image pointers: the packet is an
\* expected one other than the first of a frame, and no first packet has
\* allocated the images.  The write kills the process.
NullImages(frame_data, ub) ==
  LET row == RowOf(BE32(frame_data, ROW_OFFSET, ub))
  IN ~Unexpected(row, expected_packet_) /\ row # FRAME_ROWS - 1 /\ p_image = <<>>

\* Whether the projection loop reads an empty ray table: the packet is the
\* expected last one of a frame and initTransform was never called.  The read
\* is outside the (empty) matrix: it kills the process or finds garbage.
EmptyTable(frame_data, ub) ==
  LET row == RowOf(BE32(frame_data, ROW_OFFSET, ub))
  IN ~Unexpected(row, expected_packet_) /\ row = 0 /\ ~transform_.valid

\* processFrameData(frame_data) at time now; ub is what a read outside the
\* memory it may read (past the end of frame_data, or in an empty ray table)
\* does: the byte it finds, or FAULT.
ProcessFrameData(frame_data, ub, now) ==
  IF ~FrameVersion(version_)
  THEN /\ call' = QuietCall("frame", frame_data, FALSE)
       /\ UNCHANGED driver
  ELSE IF ub = FAULT /\ FrameReadsPast(frame_data)
  THEN /\ call' = Killed("frame", frame_data)
       /\ UNCHANGED driver
  ELSE IF NullImages(frame_data, ub)
  THEN /\ call' = [Killed("frame", frame_data) EXCEPT
                      !.past = FrameReadsPast(frame_data)]
       /\ UNCHANGED driver
  ELSE IF ub = FAULT /\ EmptyTable(frame_data, ub)
  THEN /\ call' = [Killed("frame", frame_data) EXCEPT
                      !.past = FrameReadsPast(frame_data)]
       /\ UNCHANGED driver
  ELSE
    LET row == RowOf(BE32(frame_data, ROW_OFFSET, ub))
        frame_num == BE32(frame_data, FRAME_NUM_OFFSET, ub)
    IN IF Unexpected(row, expected_packet_)
       THEN /\ expected_packet_' = ResetExpected
            /\ call' = [QuietCall("frame", frame_data, FrameReadsPast(frame_data)) EXCEPT !.ret = FALSE, !.row = row,
                                              !.error = <<expected_packet_, row>>]
            /\ wlog' = [wlog EXCEPT !.broken = TRUE]
            /\ UNCHANGED <<version_, global_offset_, objects_, p_image,
                           pointcloud_, ci, transform_, global_tf_, hdr, pub,
                           override, telem_>>
       ELSE
         LET first == row = FRAME_ROWS - 1
             last == row = 0
             cal == ReadCalibration(frame_data, ub)
             headers == IF first THEN StampFrame(hdr, now) ELSE hdr
             cloud == IF first THEN [header |-> headers.frame] ELSE pointcloud_
             refresh == first /\ IntrinsicsDiffer(ci, cal)
             info == IF refresh THEN CameraInfoOf(cal) ELSE ci
             table == IF refresh THEN InitTransform(info) ELSE transform_
             pose == IF first THEN PoseOf(cal, global_tf_) ELSE global_tf_
             sent == [pose EXCEPT !.header = headers.tf]
             images == IF first THEN NewImages ELSE p_image
             written == [images EXCEPT
                           ![row] = ParseFrame(FRAME_START_BYTE, frame_data,
                                               global_offset_, ub)]
         IN /\ hdr' = headers
            /\ pointcloud_' = cloud
            /\ ci' = info
            /\ transform_' = table
            /\ global_tf_' = IF last THEN sent ELSE pose
            /\ p_image' = written
            /\ wlog' = IF first
                       THEN [rows |-> << <<frame_num, row>> >>, broken |-> FALSE]
                       ELSE [wlog EXCEPT !.rows = Append(wlog.rows, <<frame_num, row>>)]
            /\ pub' = IF last
                      THEN [pub EXCEPT !.image_header = headers.frame,
                                       !.cloud_header = cloud.header,
                                       !.table = table,
                                       !.image = written,
                                       !.tf = sent]
                      ELSE pub
            /\ expected_packet_' = NextExpected(expected_packet_)
            /\ call' = [QuietCall("frame", frame_data, FrameReadsPast(frame_data)) EXCEPT !.row = row,
                                              !.frames = IF last THEN 1 ELSE 0,
                                              !.poses = IF last THEN 1 ELSE 0,
                                              !.tables = IF refresh THEN 1 ELSE 0]
            /\ UNCHANGED <<version_, global_offset_, objects_, override, telem_>>

\* ----------------------------------------------------------- object handler

\* One pass of parseObjects' loop body: the record it pushes, read from the
\* 129 bytes at i.  The record is kept as what it is read from; ObjectFloat
\* and ObjectByte give the field read at an offset within it.
ParseObject(packet, i, ub) == [packet |-> packet, at |-> i, ub |-> ub]

ObjectFloat(obj, off) == F32(obj.packet, obj.at + off, obj.ub)
ObjectByte(obj, off) == At(obj.packet, obj.at + off, obj.ub)

\* The count of records at which parseObjects stops.
LastObject_OneMore(count) ==
  IF count = 0 THEN FIRST_PACKET_OBJECTS + 1
  ELSE IF count = FIRST_PACKET_OBJECTS THEN SECOND_PACKET_OBJECTS
  ELSE 0

LastObject(count) ==
  IF count = 0 THEN FIRST_PACKET_OBJECTS
  ELSE IF count = FIRST_PACKET_OBJECTS THEN SECOND_PACKET_OBJECTS
  ELSE 0

\* The loop of parseObjects from byte i on.
RECURSIVE ParseObjectsFrom(_, _, _, _, _)
ParseObjectsFrom(i, packet, objects, last_object, ub) ==
  IF i >= packet.len \/ Len(objects) = last_object THEN objects
  ELSE ParseObjectsFrom(i + OBJECT_RECORD_LEN, packet,
                        Append(objects, ParseObject(packet, i, ub)),
                        last_object, ub)

\* parseObjects: objects_ after it.
ParseObjects(start_byte, packet, objects, ub) ==
  ParseObjectsFrom(start_byte, packet, objects, LastObject(Len(objects)), ub)

\* Whether processObjectData reads past the end of object_data: the flag
\* word, or the last record the loop reads.
ObjectReadsPast(object_data) ==
  \/ object_data.len < OBJECT_FLAG_OFFSET + 4
  \/ \E i \in 1..Len(ParseObjects(OBJECT_START_BYTE, object_data, objects_, 0)) :
       LET obj == ParseObjects(OBJECT_START_BYTE, object_data, objects_, 0)[i]
       IN obj.packet = object_data /\ obj.at + OBJECT_RECORD_LEN > object_data.len

\* ((word >> 0) & 1) == 1: the packet is the final fragment of a batch.
FinalFragment_Bit1(word) == (word \div 2) % 2 = 1
FinalFragment(word) == word % 2 = 1

\* The marker of object i of a batch: its id, and the record and header it is
\* computed from.
Marker_IdFromOne(objects, i, header) == [id |-> i, object |-> objects[i], header |-> header]
Marker(objects, i, header) == [id |-> i - 1, object |-> objects[i], header |-> header]

\* processObjectData(object_data) at time now; ub is what a read past the end
\* of object_data does.
ProcessObjectData(object_data, ub, now) ==
  IF ub = FAULT /\ ObjectReadsPast(object_data)
  THEN /\ call' = Killed("object", object_data)
       /\ UNCHANGED driver
  ELSE
    LET headers == [hdr EXCEPT !.object.stamp = now, !.object.seq = @ + 1]
        word == BE32(object_data, OBJECT_FLAG_OFFSET, ub)
        obj_packet == IF FinalFragment(word) THEN 1 ELSE 0
        parsed == ParseObjects(OBJECT_START_BYTE, object_data, objects_, ub)
    IN /\ hdr' = headers
       /\ IF obj_packet = 1
          THEN /\ pub' = [pub EXCEPT
                            !.markers = [i \in 1..Len(parsed) |->
                                           Marker(parsed, i, headers.object)]]
               /\ objects_' = <<>>
          ELSE /\ pub' = pub
               /\ objects_' = parsed
       /\ call' = [QuietCall("object", object_data, ObjectReadsPast(object_data)) EXCEPT
                      !.word = word, !.batches = obj_packet]
       /\ UNCHANGED <<version_, expected_packet_, global_offset_, p_image,
                      pointcloud_, ci, transform_, global_tf_, wlog,
                      override, telem_>>

\* -------------------------------------------------------- telemetry handler

\* The loop that fills telem_.au8SerialNumber: index 25 - i takes the byte at
\* 41 + i, for i from 25 down to 0.
SerialNumber_Forward(tele_data, ub) ==
  [k \in 0..SERIAL_LAST |-> At(tele_data, SERIAL_OFFSET + k, ub)]

SerialNumber(tele_data, ub) ==
  [k \in 0..SERIAL_LAST |-> At(tele_data, SERIAL_OFFSET + (SERIAL_LAST - k), ub)]

\* telem_ as processTelemetryData fills it.
ReadTelemetry_KeepSerial(tele_data, ub) ==
  [uiHardwareRevision |-> BE32(tele_data, 0, ub),
   fSensorTemp |-> F32(tele_data, 4, ub),
   fHeaterTemp |-> -F32(tele_data, 8, ub),
   uiFrameCounter |-> BE32(tele_data, 12, ub),
   fADCUbattSW |-> F32(tele_data, 16, ub),
   fADCUbatt |-> F32(tele_data, 20, ub),
   fADCHeaterLens |-> F32(tele_data, 24, ub),
   fADCHeaterLensHigh |-> F32(tele_data, 28, ub),
   fADCTemp0Lens |-> F32(tele_data, 32, ub),
   fAcquisitionPeriod |-> F32(tele_data, 36, ub),
   uiTempSensorFeedback |-> At(tele_data, 40, ub),
   au8SerialNumber |-> IF telem_ = <<>> THEN SerialNumber(tele_data, ub)
                       ELSE telem_.au8SerialNumber]

ReadTelemetry(tele_data, ub) ==
  [uiHardwareRevision |-> BE32(tele_data, 0, ub),
   fSensorTemp |-> F32(tele_data, 4, ub),
   fHeaterTemp |-> -F32(tele_data, 8, ub),
   uiFrameCounter |-> BE32(tele_data, 12, ub),
   fADCUbattSW |-> F32(tele_data, 16, ub),
   fADCUbatt |-> F32(tele_data, 20, ub),
   fADCHeaterLens |-> F32(tele_data, 24, ub),
   fADCHeaterLensHigh |-> F32(tele_data, 28, ub),
   fADCTemp0Lens |-> F32(tele_data, 32, ub),
   fAcquisitionPeriod |-> F32(tele_data, 36, ub),
   uiTempSensorFeedback |-> At(tele_data, 40, ub),
   au8SerialNumber |-> SerialNumber(tele_data, ub)]

\* Whether processTelemetryData reads past the end of tele_data.
TelemetryReadsPast(tele_data) == tele_data.len < TELEMETRY_LEN

\* processTelemetryData(tele_data) at time now.  The telemetry header is the
\* frame header (one shared object), so that is what it stamps and counts;
\* updater_.update() publishes telem_ through update_diagnostics.
ProcessTelemetryData(tele_data, ub, now) ==
  IF ub = FAULT /\ TelemetryReadsPast(tele_data)
  THEN /\ call' = Killed("telemetry", tele_data)
       /\ UNCHANGED driver
  ELSE /\ hdr' = [hdr EXCEPT !.frame.stamp = now, !.frame.seq = @ + 1]
       /\ telem_' = ReadTelemetry(tele_data, ub)
       /\ pub' = [pub EXCEPT !.diagnostics = ReadTelemetry(tele_data, ub)]
       /\ call' = QuietCall("telemetry", tele_data, TelemetryReadsPast(tele_data))
       /\ UNCHANGED <<version_, expected_packet_, global_offset_, objects_,
                      p_image, pointcloud_, ci, transform_, global_tf_, wlog,
                      override>>

\* ------------------------------------------------------------------- state

\* The camera info before any frame: no calibration was loaded.
NoCameraInfo == [K0 |-> 0, K2 |-> 0, K4 |-> 0, K5 |-> 0, D |-> <<>>]

\* An empty cv::Mat.
NoTransform ==
  [valid |-> FALSE, K0 |-> 0, K2 |-> 0, K4 |-> 0, K5 |-> 0, D |-> <<>>]

\* The extrinsics of a driver that was not reconfigured.
NoOverride ==
  [reconfigured |-> FALSE, x |-> 0, y |-> 0, z |-> 0, roll |-> 0, pitch |-> 0,
   yaw |-> 0]

\* telem_ before any telemetry packet.
NoTelemetry == <<>>

\* The row a new driver expects: it awaits the first packet of a frame.
InitialExpected == FRAME_ROWS - 1

\* The state the constructor leaves, for protocol version v and camera info c.
Constructed(v, c) ==
  /\ version_ = v
  /\ expected_packet_ = InitialExpected
  /\ objects_ = <<>>
  /\ p_image = <<>>
  /\ pointcloud_ = [header |-> [stamp |-> 0, seq |-> -1]]
  /\ ci = c
  /\ transform_ = NoTransform
  /\ global_tf_ = [x |-> 0, y |-> 0, z |-> 0, roll |-> 0, pitch |-> 0, yaw |-> 0,
                   header |-> [stamp |-> 0]]
  /\ hdr = [frame |-> [stamp |-> 0, seq |-> -1],
            object |-> [stamp |-> 0, seq |-> -1],
            tf |-> [stamp |-> 0]]
  /\ pub = [image_header |-> [stamp |-> 0, seq |-> -1],
            cloud_header |-> [stamp |-> 0, seq |-> -1],
            table |-> NoTransform,
            image |-> <<>>,
            markers |-> <<>>,
            diagnostics |-> NoTelemetry,
            tf |-> [x |-> 0, y |-> 0, z |-> 0, roll |-> 0, pitch |-> 0,
                    yaw |-> 0, header |-> [stamp |-> 0]]]
  /\ call = Quiet("none")
  /\ wlog = [rows |-> <<>>, broken |-> FALSE]
  /\ override = NoOverride
  /\ telem_ = NoTelemetry

\* ----------------------------------------------------- frames over a network

NoRun == [n |-> 0, fresh |-> FALSE, k |-> 0, same |-> TRUE]

\* The run of calls that ingested rows 31, 30, ... one after the other, after
\* one more call with packet p in a state that expected row e: how many calls,
\* whether the first was made awaiting the start, the frame counter of the
\* first, and whether all carried that frame counter.
Track(run, p, e) ==
  LET r == RowOf(BE32(p, ROW_OFFSET, 0))
      k == BE32(p, FRAME_NUM_OFFSET, 0)
  IN IF r = FRAME_ROWS - 1
     THEN [n |-> 1, fresh |-> (e = FRAME_ROWS - 1), k |-> k, same |-> TRUE]
     ELSE IF run.n > 0 /\ r = FRAME_ROWS - 1 - run.n
     THEN [run EXCEPT !.n = run.n + 1, !.same = run.same /\ k = run.k]
     ELSE NoRun

\* The process is alive; the sensor has not sent all its frames; the network
\* is still lossy.
Alive == ~call.fault
Sending == net < MaxFrames * FRAME_ROWS
Lossy == net < LossyFrames * FRAME_ROWS

\* The time of a call: the clock ticks once per frame period.
Now == net \div FRAME_ROWS

\* The next packet arrives.
Deliver ==
  /\ Alive /\ Sending
  /\ ProcessFrameData(NthPacket(net), 0, Now)
  /\ inorder' = Track(inorder, NthPacket(net), expected_packet_)
  /\ net' = net + 1
  /\ UNCHANGED <<onet, probe, tuning, tnet>>

\* The next packet is lost: no handler is called.
Drop ==
  /\ Alive /\ Sending /\ Lossy
  /\ net' = net + 1
  /\ call' = Quiet("none")
  /\ UNCHANGED <<driver, inorder, onet, probe, tuning, tnet>>

\* The network is down for one frame period: the next FRAME_ROWS packets
\* are lost.
Outage ==
  /\ Alive /\ Lossy
  /\ net + FRAME_ROWS <= MaxFrames * FRAME_ROWS
  /\ net' = net + FRAME_ROWS
  /\ call' = Quiet("none")
  /\ UNCHANGED <<driver, inorder, onet, probe, tuning, tnet>>

\* A packet sent earlier arrives again, or arrives late.
Late ==
  /\ Alive /\ Lossy
  /\ \E n \in 0..(net - 1) :
       /\ net - n <= LateWindow
       /\ ProcessFrameData(NthPacket(n), 0, Now)
       /\ inorder' = Track(inorder, NthPacket(n), expected_packet_)
  /\ UNCHANGED <<net, onet, probe, tuning, tnet>>

\* No test pattern is sent.
NoPattern == [raw |-> 0, class |-> 0]

\* Nothing was sent yet.
Silent == inorder = NoRun /\ net = 0 /\ onet = 0 /\ tuning = 0 /\ tnet = 0

Init ==
  /\ Constructed("v1", NoCameraInfo)
  /\ global_offset_ = 0
  /\ Silent
  /\ probe = NoPattern

Next == Deliver \/ Drop \/ Outage \/ Late

Spec == Init /\ [][Next]_vars

\* ------------------------------------------------------------ test pattern

\* The raw word of exactly 49 m.
RAW_LIMIT == MAX_RANGE_M * 256

RawValues ==
  {0, 2560, 10000, 12800, 65535} \cup ((RAW_LIMIT - RawSpan)..(RAW_LIMIT + RawSpan))

\* Global range offsets the driver is configured with: fractions of a raw
\* unit around zero, and whole raw units up to the 10 the configuration allows.
Offsets ==
  ((-OffsetSpan)..OffsetSpan)
    \cup {w * Pow2(OFFSET_FRAC_BITS) : w \in {-10, -1, 1, 10}}

\* The sensor sends the start-of-frame packet of its test pattern.
DecodePattern ==
  /\ Alive /\ net = 0
  /\ ProcessFrameData(PatternPacket(probe.raw, probe.class), 0, Now)
  /\ net' = net + 1
  /\ UNCHANGED <<inorder, onet, probe, tuning, tnet>>

\* The driver was configured with some global range offset, the sensor with
\* some test pattern.
InitDecode ==
  /\ \E offset \in Offsets :
       /\ Constructed("v1", NoCameraInfo)
       /\ global_offset_ = offset
  /\ Silent
  /\ probe \in [raw : RawValues, class : 0..255]

NextDecode == DecodePattern

SpecDecode == InitDecode /\ [][NextDecode]_vars

\* ------------------------------------------------------------ object lists

\* The record counts and flag words of the object packets the sensor sends:
\* empty, one record, what fits after a full first packet, a full first
\* packet, more than that; the continuation bit clear or set, another bit of
\* the low byte set, a bit of the high byte set.
ObjCounts ==
  {0, 1, SECOND_PACKET_OBJECTS - FIRST_PACKET_OBJECTS, FIRST_PACKET_OBJECTS,
   MaxRecords}
ObjWords == {0, 1, 2, Pow2(24)}

\* The clock ticks once per object packet.
ObjNow == onet

\* An object packet arrives.
ObjDeliver ==
  /\ Alive /\ onet < MaxObjPackets
  /\ \E n \in ObjCounts, word \in ObjWords :
       ProcessObjectData(SensorObjectPacket(onet + 1, word, ObjectPacketLen(n)),
                         0, ObjNow)
  /\ onet' = onet + 1
  /\ UNCHANGED <<inorder, net, probe, tuning, tnet>>

NextObj == ObjDeliver

SpecObj == Init /\ [][NextObj]_vars

\* ----------------------------------------------------------- object cycles

\* The sensor sends its object list once per cycle as two packets: a first
\* fragment of 11 records with the continuation bit clear, then a final
\* fragment with the remaining records and the bit set.  Packets are numbered
\* from 1, so the odd ones are first fragments.
CycleOf(id) == ((id - 1) \div 2) + 1
IsFirstFragment(id) == id % 2 = 1

\* The records a final fragment holds.
FinalCounts == {1, SECOND_PACKET_OBJECTS - FIRST_PACKET_OBJECTS}

CyclePacket(id, m) ==
  IF IsFirstFragment(id)
  THEN SensorObjectPacket(id, 0, ObjectPacketLen(FIRST_PACKET_OBJECTS))
  ELSE SensorObjectPacket(id, 1, ObjectPacketLen(m))

\* The next fragment arrives.
CycleDeliver ==
  /\ Alive /\ onet < 2 * MaxCycles
  /\ \E m \in FinalCounts : ProcessObjectData(CyclePacket(onet + 1, m), 0, ObjNow)
  /\ onet' = onet + 1
  /\ UNCHANGED <<inorder, net, probe, tuning, tnet>>

\* The next fragment is lost: no handler is called.
CycleDrop ==
  /\ Alive /\ onet < 2 * MaxCycles
  /\ onet' = onet + 1
  /\ call' = Quiet("none")
  /\ UNCHANGED <<driver, inorder, net, probe, tuning, tnet>>

NextCycle == CycleDeliver \/ CycleDrop

SpecCycle == Init /\ [][NextCycle]_vars

\* ------------------------------------------------------------- calibration

\* The tunings of the sensor.
CalSets == {0, 1, 2}

\* The n-th packet the sensor sends while it reports the intrinsics of set.
NthTunedPacket(n, set) ==
  TunedFramePacket(set, (n \div FRAME_ROWS) + 1,
                   FRAME_ROWS - 1 - (n % FRAME_ROWS), FRAME_PACKET_LEN)

\* The camera info camera_info_manager_ loads when an earlier run of the
\* driver saved the intrinsics of a sensor in tuning 0.
SavedCameraInfo == CameraInfoOf(ReadCalibration(NthTunedPacket(0, 0), 0))

\* Between two frames the sensor is given another tuning.
Retune ==
  /\ Alive /\ Sending /\ net % FRAME_ROWS = 0
  /\ \E set \in CalSets \ {tuning} : tuning' = set
  /\ call' = Quiet("none")
  /\ UNCHANGED <<driver, inorder, net, onet, probe, tnet>>

\* The next packet arrives, the intrinsics of the sensor's tuning in it.
CalDeliver ==
  /\ Alive /\ Sending
  /\ \E ub \in (IF EmptyTable(NthTunedPacket(net, tuning), 0) THEN PastEnd ELSE {0}) :
       ProcessFrameData(NthTunedPacket(net, tuning), ub, Now)
  /\ inorder' = Track(inorder, NthTunedPacket(net, tuning), expected_packet_)
  /\ net' = net + 1
  /\ UNCHANGED <<onet, probe, tuning, tnet>>

\* The driver starts without a calibration, or with a saved one.
InitCal ==
  /\ \E c \in {NoCameraInfo, SavedCameraInfo} : Constructed("v1", c)
  /\ global_offset_ = 0
  /\ Silent
  /\ probe = NoPattern

NextCal == Retune \/ CalDeliver

SpecCal == InitCal /\ [][NextCal]_vars

\* ----------------------------------------------------------- reconfiguration

\* The extrinsics an operator configures: values the sensor never reports.
Configured ==
  [reconfigured |-> TRUE, x |-> 701, y |-> 702, z |-> 703, roll |-> 704,
   pitch |-> 705, yaw |-> 706]

\* The six extrinsic setters and setExtrinsicsReconfigured(true), called by
\* the dynamic-reconfigure callback: they store their arguments.
Reconfigure ==
  /\ Alive /\ ~override.reconfigured
  /\ override' = Configured
  /\ call' = Quiet("none")
  /\ UNCHANGED <<version_, expected_packet_, global_offset_, objects_, p_image,
                 pointcloud_, ci, transform_, global_tf_, hdr, pub, wlog, telem_,
                 inorder, net, onet, probe, tuning, tnet>>

NextPose == Reconfigure \/ Deliver

SpecPose == Init /\ [][NextPose]_vars

\* ---------------------------------------------------------------- telemetry

\* The sensors that may be connected, by serial-number seed.
SerialSeeds == 0..SerialSpan

\* A telemetry packet arrives from the connected sensor.
TeleDeliver ==
  /\ Alive /\ tnet < MaxTelePackets
  /\ \E seed \in SerialSeeds :
       ProcessTelemetryData(SensorTelemetryPacket(tnet + 1, seed, TELEMETRY_LEN), 0, tnet)
  /\ tnet' = tnet + 1
  /\ UNCHANGED <<inorder, net, onet, probe, tuning>>

NextTele == TeleDeliver

SpecTele == Init /\ [][NextTele]_vars

\* ------------------------------------------------------------ all channels

\* The sensor may send one more packet on some channel.
Mixing == net + onet + tnet < MixCalls

\* The next frame packet arrives, or is lost.
MixFrame == Mixing /\ Deliver
MixDrop == Mixing /\ Drop

\* An object packet of one record arrives, the continuation bit set or not.
MixObject ==
  /\ Alive /\ Mixing
  /\ \E word \in {0, 1} :
       ProcessObjectData(SensorObjectPacket(onet + 1, word, ObjectPacketLen(1)), 0, Now)
  /\ onet' = onet + 1
  /\ UNCHANGED <<inorder, net, probe, tuning, tnet>>

\* A telemetry packet arrives.
MixTelemetry ==
  /\ Alive /\ Mixing
  /\ ProcessTelemetryData(SensorTelemetryPacket(tnet + 1, 0, TELEMETRY_LEN), 0, Now)
  /\ tnet' = tnet + 1
  /\ UNCHANGED <<inorder, net, onet, probe, tuning>>

NextMix == MixFrame \/ MixDrop \/ MixObject \/ MixTelemetry

SpecMix == Init /\ [][NextMix]_vars

\* The telemetry packet that arrived last arrives once more (the network
\* duplicated it); no more packets are duplicated than were sent.
TeleRepeat ==
  /\ Alive /\ call.op = "telemetry" /\ hdr.frame.seq + 1 < 2 * tnet
  /\ ProcessTelemetryData(call.packet, 0, tnet)
  /\ UNCHANGED <<inorder, net, onet, probe, tuning, tnet>>

NextRepeat == TeleDeliver \/ TeleRepeat

SpecRepeat == Init /\ [][NextRepeat]_vars

\* ------------------------------------------------------------ resynchronising

\* The sensor sends two more frames after those the network may lose
\* packets of.
Resyncing == net < (LossyFrames + 2) * FRAME_ROWS

\* The next packet arrives.
SyncDeliver ==
  /\ Alive /\ Resyncing
  /\ ProcessFrameData(NthPacket(net), 0, Now)
  /\ inorder' = Track(inorder, NthPacket(net), expected_packet_)
  /\ net' = net + 1
  /\ UNCHANGED <<onet, probe, tuning, tnet>>

\* The next packet is lost, while the network is lossy.
SyncDrop == Resyncing /\ Drop

NextSync == SyncDeliver \/ SyncDrop

SpecSync == Init /\ [][NextSync]_vars

\* ------------------------------------------------- telemetry between rows

\* A telemetry packet arrives, before, between or after the rows of a frame.
BeatTelemetry ==
  /\ Alive /\ tnet < MaxTelePackets
  /\ ProcessTelemetryData(SensorTelemetryPacket(tnet + 1, 0, TELEMETRY_LEN), 0, Now)
  /\ tnet' = tnet + 1
  /\ UNCHANGED <<inorder, net, onet, probe, tuning>>

NextBeat == Deliver \/ BeatTelemetry

SpecBeat == Init /\ [][NextBeat]_vars

\* ------------------------------------------------------ range offset changes

\* setGlobalRangeOffset(offset), called by the dynamic-reconfigure callback
\* between two handler calls: it stores the offset.  The operator changes
\* the default offset once.
SetGlobalRangeOffset ==
  /\ Alive /\ Sending /\ global_offset_ = 0
  /\ \E offset \in Offsets \ {0} : global_offset_' = offset
  /\ call' = Quiet("none")
  /\ UNCHANGED <<version_, expected_packet_, objects_, p_image, pointcloud_, ci,
                 transform_, global_tf_, hdr, pub, wlog, override, telem_,
                 inorder, net, onet, probe, tuning, tnet>>

NextOffset == SetGlobalRangeOffset \/ Deliver

SpecOffset == Init /\ [][NextOffset]_vars

\* -------------------------------------------------------- truncated packets

\* The sizes at which a frame packet arrives truncated: empty, cut within
\* the row field, after it, before the pixel data, and one byte short.
ShortFrameLens ==
  {0, ROW_OFFSET + 2, ROW_OFFSET + 4, FRAME_START_BYTE, FRAME_PACKET_LEN - 1}

\* The sizes at which an object packet arrives truncated: empty, cut within
\* the flag word, within its first record, and within its second record.
ShortObjectLens ==
  {0, OBJECT_FLAG_OFFSET + 2, OBJECT_START_BYTE + 1,
   OBJECT_START_BYTE + OBJECT_RECORD_LEN + 1}

\* No truncated packet has arrived so far.
Intact == ~call.past

\* The next frame packet arrives whole.
DeliverWhole == Intact /\ Deliver

\* The next frame packet arrives truncated.
ShortFrame ==
  /\ Alive /\ Intact /\ Sending
  /\ \E len \in ShortFrameLens, ub \in PastEnd :
       LET p == NthPacket(net)
       IN ProcessFrameData(SensorFramePacket(p.k, p.r, len), ub, Now)
  /\ net' = net + 1
  /\ UNCHANGED <<inorder, onet, probe, tuning, tnet>>

\* An object packet arrives truncated.
ShortObject ==
  /\ Alive /\ Intact /\ onet < MaxObjPackets
  /\ \E len \in ShortObjectLens, ub \in PastEnd, word \in ObjWords :
       ProcessObjectData(SensorObjectPacket(onet + 1, word, len), ub, Now)
  /\ onet' = onet + 1
  /\ UNCHANGED <<inorder, net, probe, tuning, tnet>>

NextShort == DeliverWhole \/ ShortFrame \/ ShortObject

SpecShort == Init /\ [][NextShort]_vars

\* ------------------------------------------------------ frame assembly claims

\* The call of the last step was processFrameData.
FrameCall == call.op = "frame"

\* C1: starting from the state that awaits the start of a frame, 32 calls
\* that ingest rows 31, 30, ..., 0 in that order publish exactly one frame:
\* none of the first 31 calls publishes, the call that ingests row 0 does.
C1_InOrderFrame ==
  (FrameCall /\ inorder.fresh /\ inorder.n >= 1) =>
     /\ inorder.n < FRAME_ROWS => call.frames = 0
     /\ inorder.n = FRAME_ROWS => call.frames = 1

C1_Witness ==
  FrameCall /\ inorder.fresh /\ inorder.n = FRAME_ROWS /\ call.frames = 1

\* C2: a frame is published only if all 32 rows, 31 down to 0, were written
\* exactly once and in order since the start-of-frame packet was accepted, each
\* from a packet of that same frame (no partial or mixed frame is published).
C2_NoMixedFrame ==
  call.frames = 1 =>
     /\ Len(wlog.rows) = FRAME_ROWS
     /\ \A i \in 1..FRAME_ROWS : wlog.rows[i] = <<wlog.rows[1][1], FRAME_ROWS - i>>

\* C3: a call whose packet carries another row than the expected one returns
\* failure and reports the expected and the received row, writes no pixel and
\* publishes nothing; and no frame is published from images whose assembly
\* met such a packet.
C3_CallRejects ==
  (call'.op = "frame" /\ ~call'.fault /\ call'.row # expected_packet_) =>
     /\ call'.ret = FALSE
     /\ call'.error = <<expected_packet_, call'.row>>
     /\ call'.frames = 0
     /\ p_image' = p_image
     /\ pub' = pub

C3_SequencingError == [][C3_CallRejects]_vars /\ [](call.frames = 1 => ~wlog.broken)

\* Rows 31 and 30 were accepted, row 29 is expected, row 28 arrived: the call
\* failed and no frame has been published.
C3_Witness ==
  /\ FrameCall /\ call.ret = FALSE /\ call.error = <<29, 28>>
  /\ Len(wlog.rows) = 2 /\ wlog.broken
  /\ pub.image = <<>>

\* C4: when packets of a frame were lost and the 32 packets of the next frame
\* then arrive in order 31..0, that next frame is published.
C4_NextFramePublished ==
  (FrameCall /\ inorder.n = FRAME_ROWS /\ inorder.same) => call.frames = 1

\* ------------------------------------------------------------ cloud claims

\* Record number i (from 0) of the published point cloud.
CloudRecord(points, i) == points[i + 1]

\* The record holds the range, intensity, return index and flags given.
IsRecord(rec, row, col, return, range, intensity, crosstalk, saturated, superimposed) ==
  /\ rec.xyz = Project(pub.table, col, row, range)
  /\ rec.intensity = intensity
  /\ rec.return = return
  /\ rec.crosstalk = crosstalk
  /\ rec.saturated = saturated
  /\ rec.superimposed = superimposed

\* C6: the point cloud of a published frame has 8192 records; record
\* 2 * (128 * r + c) is return 1 of pixel (r, c) and the record after it is
\* return 2, each with the pixel's intensity, return index and three flags of
\* that return; a pixel whose range is the sentinel still has both records.
C6_CloudLayout ==
  call.frames = 1 =>
    LET points == PublishedPoints
    IN /\ Len(points) = 2 * FRAME_ROWS * FRAME_COLUMNS
       /\ \A r \in Rows : \A c \in 0..(FRAME_COLUMNS - 1) :
            LET px == PixelAt(pub.image[r], c)
                i == 2 * (FRAME_COLUMNS * r + c)
            IN /\ IsRecord(CloudRecord(points, i), r, c, 1, px.depth, px.intensity,
                           px.crosstalk, px.saturated, px.superimposed)
               /\ IsRecord(CloudRecord(points, i + 1), r, c, 2, px.depth2, px.intensity2,
                           px.crosstalk2, px.saturated2, px.superimposed2)

\* A frame was published in which return 2 of pixel (0, 0) has the sentinel
\* range and return 1 has not.
C6_Witness ==
  /\ call.frames = 1
  /\ PixelAt(pub.image[0], 0).depth2 = NAN
  /\ PixelAt(pub.image[0], 0).depth # NAN
  /\ Len(PublishedPoints) = 2 * FRAME_ROWS * FRAME_COLUMNS

\* ------------------------------------------------------------ decode claims

\* The test pattern was decoded: pixel (31, 0) of the images holds it.
Decoded == FrameCall /\ probe # NoPattern /\ p_image # <<>> /\ p_image[FRAME_ROWS - 1] # <<>>
DecodedPixel == PixelAt(p_image[FRAME_ROWS - 1], 0)

\* raw + offset in offset units, (raw + offset) / 256 in range units, and
\* 49.0 in range units.
ExactRange == probe.raw * Pow2(OFFSET_FRAC_BITS) + global_offset_
RANGE_LIMIT == MAX_RANGE_M * RANGE_UNIT

Abs(n) == IF n < 0 THEN -n ELSE n

\* v is a single precision value; v is the single precision value nearest to
\* x (of two equally near, the one with the even significand).
Single(v) == v % Pow2(LostBits(Abs(v))) = 0
ROUND_WINDOW == Pow2(3)
Nearest(x, v) ==
  /\ Single(v)
  /\ \A w \in (x - ROUND_WINDOW)..(x + ROUND_WINDOW) :
       (Single(w) /\ w # v) =>
          \/ Abs(w - x) > Abs(v - x)
          \/ Abs(w - x) = Abs(v - x) /\ v % (2 * Pow2(LostBits(Abs(x)))) = 0

\* C7 as stated: the decoded range is (raw + offset) / 256, replaced by the
\* sentinel exactly when raw + offset > 12544.
C7_RangeExact ==
  Decoded =>
    DecodedPixel.depth = (IF ExactRange > RANGE_LIMIT THEN NAN ELSE ExactRange)

\* C7: the decoded range is (raw + offset) / 256 rounded to the nearest single
\* precision value, replaced by the sentinel exactly when that rounded value
\* is greater than 49.0; with a whole offset nothing is rounded and the
\* sentinel is written exactly when raw + offset > 12544: raw 2560 gives 10.0,
\* raw 12800 the sentinel, raw 12544 gives 49.0.
C7_RangeRounded ==
  Decoded =>
    /\ \E v \in (ExactRange - ROUND_WINDOW)..(ExactRange + ROUND_WINDOW) :
         /\ Nearest(ExactRange, v)
         /\ DecodedPixel.depth = (IF v > RANGE_LIMIT THEN NAN ELSE v)
         /\ DecodedPixel.depth2 = DecodedPixel.depth
    /\ global_offset_ % Pow2(OFFSET_FRAC_BITS) = 0 =>
         DecodedPixel.depth = (IF ExactRange > RANGE_LIMIT THEN NAN ELSE ExactRange)
    /\ global_offset_ = 0 =>
         /\ probe.raw = 2560 => DecodedPixel.depth = 10 * RANGE_UNIT
         /\ probe.raw = 12800 => DecodedPixel.depth = NAN
         /\ probe.raw = RAW_LIMIT => DecodedPixel.depth = MAX_RANGE_M * RANGE_UNIT

\* Raw 12544 with an offset of one offset unit: raw + offset > 12544, and the
\* range written is 49.0.
C7_Witness ==
  /\ Decoded /\ probe.raw = RAW_LIMIT /\ global_offset_ = 1
  /\ DecodedPixel.depth = RANGE_LIMIT

\* A flag image value read as a truth value.
IsSet(flag) == flag # 0

Return1Flags(px) == <<IsSet(px.crosstalk), IsSet(px.saturated), IsSet(px.superimposed)>>
Return2Flags(px) == <<IsSet(px.crosstalk2), IsSet(px.saturated2), IsSet(px.superimposed2)>>

\* 0b10010011
EXAMPLE_CLASS == 128 + 16 + 2 + 1

\* C8 as stated: the classification byte 0b10010011 gives return 1
\* {crosstalk, saturated, not superimposed} and return 2 {crosstalk, not
\* saturated, not superimposed}.
C8_ExampleStated ==
  (Decoded /\ probe.class = EXAMPLE_CLASS) =>
    /\ Return1Flags(DecodedPixel) = <<TRUE, TRUE, FALSE>>
    /\ Return2Flags(DecodedPixel) = <<TRUE, FALSE, FALSE>>

\* C8: the classification byte 0b10010011 gives return 1 {crosstalk,
\* saturated, not superimposed} and return 2 {crosstalk, not saturated,
\* superimposed} (bit 7 of the byte is set).
C8_Example ==
  (Decoded /\ probe.class = EXAMPLE_CLASS) =>
    /\ Return1Flags(DecodedPixel) = <<TRUE, TRUE, FALSE>>
    /\ Return2Flags(DecodedPixel) = <<TRUE, FALSE, TRUE>>

C8_Witness ==
  Decoded /\ probe.class = EXAMPLE_CLASS /\ DecodedPixel.superimposed2 = 255

\* The byte with the bits given (bit 0 the least significant).
ByteOf(bits) ==
  bits[0] + 2 * bits[1] + 4 * bits[2] + 8 * bits[3] + 16 * bits[4]
    + 32 * bits[5] + 64 * bits[6] + 128 * bits[7]

\* The byte with the other value of one bit.
Flip(byte, bit) ==
  IF (byte \div Pow2(bit)) % 2 = 1 THEN byte - Pow2(bit) ELSE byte + Pow2(bit)

\* C9: for every classification byte the return 1 flags are its bits 0
\* (crosstalk), 1 (saturated) and 3 (superimposed), the return 2 flags its bits
\* 4, 5 and 7; bits 2 and 6 change no flag.
C9_FlagBits ==
  Decoded =>
    /\ \E bits \in [0..7 -> {0, 1}] :
         /\ ByteOf(bits) = probe.class
         /\ Return1Flags(DecodedPixel) = <<bits[0] = 1, bits[1] = 1, bits[3] = 1>>
         /\ Return2Flags(DecodedPixel) = <<bits[4] = 1, bits[5] = 1, bits[7] = 1>>
    /\ \A bit \in {2, 6} :
         LET other == PixelAt([p_image[FRAME_ROWS - 1] EXCEPT
                                 !.packet.class = Flip(probe.class, bit)], 0)
         IN /\ Return1Flags(other) = Return1Flags(DecodedPixel)
            /\ Return2Flags(other) = Return2Flags(DecodedPixel)

\* A byte with bits 2 and 6 set and all flags clear was decoded.
C9_Witness ==
  /\ Decoded /\ probe.class = 68
  /\ Return1Flags(DecodedPixel) = <<FALSE, FALSE, FALSE>>
  /\ Return2Flags(DecodedPixel) = <<FALSE, FALSE, FALSE>>

\* ------------------------------------------------------------ object claims

\* The packets the records of a list were read from.
PacketsOf(objects) == {objects[i].packet : i \in 1..Len(objects)}
PacketsOfMarkers(markers) == {markers[i].object.packet : i \in 1..Len(markers)}

\* C10: whatever the continuation bits and record counts of the object packets,
\* the records collected for a batch never exceed 20, and a published batch
\* holds at most 20 records from at most two packets.
C10_BatchBounded ==
  /\ Len(objects_) <= SECOND_PACKET_OBJECTS
  /\ Cardinality(PacketsOf(objects_)) <= 2
  /\ call.batches = 1 =>
       /\ Len(pub.markers) <= SECOND_PACKET_OBJECTS
       /\ Cardinality(PacketsOfMarkers(pub.markers)) <= 2

\* ------------------------------------------------------------ bounds claims

\* What the handlers assemble and publish.
assembled == <<expected_packet_, objects_, p_image, pointcloud_, ci, transform_,
               global_tf_, hdr, pub>>

\* C5: a call whose packet is shorter than the bytes the call reads returns a
\* failure (a BoundsError) to its caller and changes nothing of what the
\* driver assembles and publishes.
C5_CallBounded ==
  call'.past =>
     /\ ~call'.fault
     /\ call'.ret = FALSE
     /\ UNCHANGED assembled

C5_BoundsError == [][C5_CallBounded]_vars

\* The last step was a call of processObjectData that returned.
ObjectCall == call.op = "object" /\ ~call.fault

\* The whole records an object packet holds.
RecordsIn(packet) ==
  IF packet.len < OBJECT_START_BYTE THEN 0
  ELSE (packet.len - OBJECT_START_BYTE) \div OBJECT_RECORD_LEN

Min(a, b) == IF a < b THEN a ELSE b

\* C11: a call that finds the batch empty adds the records of its packet up
\* to 11 and no more, however many the packet holds; a call that finds 11
\* records adds records until the batch holds 20 and no more.
C11_CallStops ==
  (call'.op = "object" /\ ~call'.fault) =>
     LET batch == IF call'.batches = 1
                  THEN [i \in 1..Len(pub'.markers) |-> pub'.markers[i].object]
                  ELSE objects_'
         n == RecordsIn(call'.packet)
     IN /\ Len(objects_) = 0 =>
             Len(batch) = Min(n, FIRST_PACKET_OBJECTS)
        /\ Len(objects_) = FIRST_PACKET_OBJECTS =>
             Len(batch) = Min(FIRST_PACKET_OBJECTS + n, SECOND_PACKET_OBJECTS)
        /\ \A i \in 1..Len(objects_) : batch[i] = objects_[i]

C11_StopAfter11And20 == [][C11_CallStops]_vars

\* The batch holds 20 records: 11 of a first packet that held more than 11,
\* and 9 of a second packet that held more than 9.
C11_Witness ==
  /\ ObjectCall
  /\ Len(objects_) = SECOND_PACKET_OBJECTS
  /\ RecordsIn(objects_[1].packet) > FIRST_PACKET_OBJECTS
  /\ objects_[FIRST_PACKET_OBJECTS].packet = objects_[1].packet
  /\ objects_[FIRST_PACKET_OBJECTS + 1].packet = call.packet
  /\ RecordsIn(call.packet) > SECOND_PACKET_OBJECTS - FIRST_PACKET_OBJECTS

\* Bit 0 of the 32-bit field sent big-endian at offset 10 of a packet.
ContinuationBit(packet) ==
  (PacketByte(packet, OBJECT_FLAG_OFFSET) * Pow2(24)
     + PacketByte(packet, OBJECT_FLAG_OFFSET + 1) * Pow2(16)
     + PacketByte(packet, OBJECT_FLAG_OFFSET + 2) * Pow2(8)
     + PacketByte(packet, OBJECT_FLAG_OFFSET + 3)) % 2

\* C12: an object call publishes a batch if and only if the continuation bit
\* of its packet is 1; after a call that published, the list is empty; a call
\* whose bit is 0 publishes nothing and keeps every record collected.
C12_CallEmits ==
  (call'.op = "object" /\ ~call'.fault) =>
     /\ call'.batches = 1 <=> ContinuationBit(call'.packet) = 1
     /\ call'.batches = 1 => objects_' = <<>>
     /\ call'.batches = 0 =>
          /\ pub'.markers = pub.markers
          /\ Len(objects_') >= Len(objects_)
          /\ \A i \in 1..Len(objects_) : objects_'[i] = objects_[i]

C12_EmitOnBit == [][C12_CallEmits]_vars

\* A packet with bit 0 set found records collected and published them with
\* its own; the list is empty.
C12_Witness ==
  /\ ObjectCall /\ call.batches = 1 /\ ContinuationBit(call.packet) = 1
  /\ objects_ = <<>>
  /\ Len(pub.markers) > RecordsIn(call.packet)

\* C13: a batch is published only whole: its records are all the records of
\* the two fragments of one cycle, the cycle of the packet that made the call
\* publish (none of another cycle, and the first fragment's among them).
C13_WholeCycle ==
  (ObjectCall /\ call.batches = 1) =>
     LET fragments == PacketsOfMarkers(pub.markers)
     IN /\ \A p \in fragments : CycleOf(p.id) = CycleOf(call.packet.id)
        /\ \E p \in fragments : IsFirstFragment(p.id)
        /\ Len(pub.markers) = FIRST_PACKET_OBJECTS + RecordsIn(call.packet)

\* The records a driver holds or has published.
RecordsKept ==
  {objects_[i] : i \in 1..Len(objects_)} \cup
  {pub.markers[i].object : i \in 1..Len(pub.markers)}

\* C14: an object call over a buffer that holds the flag word decodes only
\* records the buffer holds whole: it ends without error, reads no byte past
\* the end of the buffer, and no record is kept for a truncated tail.
C14_WholeRecords ==
  (call.op = "object" /\ call.size >= OBJECT_FLAG_OFFSET + 4) =>
     /\ ~call.fault
     /\ ~call.past
     /\ \A obj \in RecordsKept : obj.at + OBJECT_RECORD_LEN <= obj.packet.len

\* The call of the step accepted a start-of-frame packet.
StartAccepted(c) == c.op = "frame" /\ ~c.fault /\ c.ret /\ c.row = FRAME_ROWS - 1

\* The intrinsic vector of a packet.
IntrinsicsOf(packet) ==
  LET cal == ReadCalibration(packet, 0)
  IN <<cal.fx, cal.fy, cal.ux, cal.uy, cal.r1, cal.r2, cal.t1, cal.t2, cal.r4>>

\* C15: the call that accepts a start-of-frame packet computes the ray table
\* exactly when the frame is the first the driver sees or its intrinsics
\* differ from those of the start-of-frame packet accepted before it: once
\* for a run of frames with identical intrinsics, whatever the camera info
\* held at the start.
C15_CallComputes ==
  StartAccepted(call') =>
     LET same == /\ p_image # <<>>
                 /\ IntrinsicsOf(p_image[FRAME_ROWS - 1].packet) = IntrinsicsOf(call'.packet)
     IN call'.tables = IF same THEN 0 ELSE 1
C15_TableOncePerRun == [][C15_CallComputes]_vars

\* The intrinsic vector the camera info holds.
CachedIntrinsics(info) ==
  <<info.K0, info.K4, info.K2, info.K5>> \o
  (IF info.D = <<>> THEN <<>> ELSE <<info.D[1], info.D[2], info.D[3], info.D[4], info.D[6]>>)

\* C16: when the intrinsic vector of an accepted start-of-frame packet differs
\* from the cached one in any component, the call computes the ray table and
\* caches the packet's intrinsics.
C16_CallRefreshes ==
  (StartAccepted(call') /\ IntrinsicsOf(call'.packet) # CachedIntrinsics(ci)) =>
     /\ call'.tables = 1
     /\ CachedIntrinsics(ci') = IntrinsicsOf(call'.packet)
     /\ transform_' = InitTransform(CameraInfoOf(ReadCalibration(call'.packet, 0)))
C16_RefreshOnAnyChange == [][C16_CallRefreshes]_vars

\* The six components of a pose.
Components(tf) == <<tf.x, tf.y, tf.z, tf.roll, tf.pitch, tf.yaw>>

\* The extrinsics in the start-of-frame packet of the frame last published.
Reported == PoseOf(ReadCalibration(pub.image[FRAME_ROWS - 1].packet, 0), pub.tf)

\* C17: the pose emitted with a completed frame has the override values when
\* the extrinsics-reconfigured flag is set, and the values the sensor
\* reported in the frame when it is not.
C17_PoseOverridden ==
  (FrameCall /\ call.frames = 1) =>
     Components(pub.tf) = IF override.reconfigured THEN Components(override)
                          ELSE Components(Reported)

\* The call of the last step was processTelemetryData.
TelemetryCall == call.op = "telemetry" /\ ~call.fault

\* C18: after a telemetry call, character k of the decoded serial number is
\* the packet byte at 41 + 25 - k, for the record kept and the one
\* published, and the string is the sensor's serial number in forward order
\* (the sensor sends it last character first).
C18_SerialReversed ==
  TelemetryCall =>
     /\ \A k \in 0..SERIAL_LAST :
          telem_.au8SerialNumber[k] = PacketByte(call.packet, SERIAL_OFFSET + SERIAL_LAST - k)
     /\ telem_.au8SerialNumber = SensorSerial(call.packet.seed)
     /\ pub.diagnostics.au8SerialNumber = telem_.au8SerialNumber
C18_Witness ==
  /\ TelemetryCall /\ tnet = MaxTelePackets
  /\ call.packet.seed = 3
  /\ telem_.au8SerialNumber[0] = 68 /\ telem_.au8SerialNumber[SERIAL_LAST] = 67
  /\ PacketByte(call.packet, SERIAL_OFFSET) = 67

\* C19: a frame call that rejects its packet as out of sequence sets the
\* expected row to the start of a frame and changes nothing else of the
\* driver: not the object list, the telemetry record, the ray table, the
\* camera info, the pose, the images or anything published; and the process
\* stays alive, so every channel keeps being served.
C19_CallIsolated ==
  (call'.op = "frame" /\ ~call'.ret) =>
     /\ expected_packet_' = FRAME_ROWS - 1
     /\ ~call'.fault
     /\ UNCHANGED <<version_, global_offset_, objects_, telem_, transform_, ci,
                    global_tf_, p_image, pointcloud_, hdr, pub, override>>
C19_RejectionIsolated == [][C19_CallIsolated]_vars
C19_Witness ==
  /\ FrameCall /\ ~call.ret /\ Alive
  /\ expected_packet_ = FRAME_ROWS - 1
  /\ objects_ # <<>> /\ telem_ # NoTelemetry /\ transform_.valid

\* The extrinsics (x, y, z, roll, pitch, yaw) in a packet.
ExtrinsicsOf(packet) ==
  LET cal == ReadCalibration(packet, 0)
  IN <<cal.extrinsic_x, cal.extrinsic_y, cal.extrinsic_z, cal.extrinsic_roll,
       cal.extrinsic_pitch, cal.extrinsic_yaw>>

\* C20: a step sends a pose exactly when it is a frame call that publishes a
\* frame, one pose for the one frame, and the pose has the extrinsics of the
\* row-31 packet of the frame published with it.
C20_CallPose ==
  /\ call'.poses = call'.frames
  /\ pub'.tf # pub.tf => call'.op = "frame" /\ call'.frames = 1
  /\ (call'.op = "frame" /\ call'.frames = 1) =>
        /\ pub'.tf # pub.tf
        /\ pub'.image # pub.image
        /\ Components(pub'.tf) = ExtrinsicsOf(pub'.image[FRAME_ROWS - 1].packet)
C20_OnePosePerFrame == [][C20_CallPose]_vars
C20_Witness ==
  /\ FrameCall /\ call.frames = 1 /\ call.poses = 1
  /\ pub.image[FRAME_ROWS - 1].packet.k = 2
  /\ pub.tf.x = 26 /\ pub.tf.yaw = 21

\* ------------------------------------------------------- sequencing claims

\* The images right after a start-of-frame packet: newly allocated, row 31
\* written from the packet and no other row written.
StartedWith(images, packet) ==
  /\ images # <<>>
  /\ images[FRAME_ROWS - 1] # <<>>
  /\ images[FRAME_ROWS - 1].packet = packet
  /\ \A r \in Rows \ {FRAME_ROWS - 1} : images[r] = <<>>

\* C21: a frame call whose packet carries row 31 starts a frame whatever row
\* the driver expected: it succeeds, the images are newly allocated with
\* row 31 written from the packet, the pose is that of the packet, and row
\* 30 is expected next.
C21_CallStarts ==
  (call'.op = "frame" /\ ~call'.fault /\ call'.row = FRAME_ROWS - 1) =>
     /\ call'.ret
     /\ StartedWith(p_image', call'.packet)
     /\ Components(global_tf_') = ExtrinsicsOf(call'.packet)
     /\ expected_packet_' = FRAME_ROWS - 2
C21_StartInEveryState == [][C21_CallStarts]_vars

\* C22: a frame call whose packet carries another row than the expected one
\* leaves the driver expecting row 31, whatever the two rows were; and while
\* row 31 is expected after such a call, every packet of another row is
\* rejected with the error and row 31 stays expected.
C22_CallResets ==
  (call'.op = "frame" /\ ~call'.fault) =>
     /\ call'.row # expected_packet_ =>
          /\ expected_packet_' = FRAME_ROWS - 1
          /\ wlog'.broken
     /\ (wlog.broken /\ call'.row # FRAME_ROWS - 1) =>
          /\ expected_packet_ = FRAME_ROWS - 1
          /\ ~call'.ret /\ call'.error = <<FRAME_ROWS - 1, call'.row>>
          /\ expected_packet_' = FRAME_ROWS - 1
          /\ wlog'.broken
     /\ (wlog.broken /\ call'.row = FRAME_ROWS - 1) =>
          call'.ret /\ ~wlog'.broken
C22_ResetToStart == [][C22_CallResets]_vars

\* Row 5 arrived while row 9 was expected, then row 4 arrived and was
\* rejected as well: row 31 is still expected.
C22_Witness ==
  /\ FrameCall /\ ~call.ret /\ call.error = <<FRAME_ROWS - 1, 4>>
  /\ wlog.broken /\ Len(wlog.rows) = FRAME_ROWS - 9
  /\ expected_packet_ = FRAME_ROWS - 1

\* C23: the expected row is always one of 0..31; a step changes it only in a
\* frame call: an accepted packet of row e > 0 leaves e - 1 expected, an
\* accepted packet of row 0 leaves 31, a rejected packet leaves 31.
C23_StepMoves ==
  /\ (call'.op = "frame" /\ ~call'.fault /\ call'.ret) =>
        /\ call'.row = expected_packet_
        /\ expected_packet_' = IF call'.row > 0 THEN call'.row - 1 ELSE FRAME_ROWS - 1
  /\ (call'.op = "frame" /\ ~call'.fault /\ ~call'.ret) =>
        expected_packet_' = FRAME_ROWS - 1
  /\ call'.op # "frame" => expected_packet_' = expected_packet_
C23_ExpectedRow == [](expected_packet_ \in Rows) /\ [][C23_StepMoves]_vars

\* A frame was completed: the call accepted row 0 and row 31 is expected.
C23_Witness ==
  /\ FrameCall /\ call.ret /\ call.row = 0 /\ call.frames = 1
  /\ expected_packet_ = FRAME_ROWS - 1

\* The value of the 32-bit field at offset 16 of a packet, first byte the
\* most significant.
RowField(packet) ==
  PacketByte(packet, ROW_OFFSET) * Pow2(24) + PacketByte(packet, ROW_OFFSET + 1) * Pow2(16)
    + PacketByte(packet, ROW_OFFSET + 2) * Pow2(8) + PacketByte(packet, ROW_OFFSET + 3)

\* C24 as stated: the row a frame call sequences by and writes is the value
\* of the field at offset 16; the packet with field value 31 starts a frame
\* and the one with field value 0 completes it.
C24_CallRowStated ==
  (call'.op = "frame" /\ ~call'.fault) =>
     LET field == RowField(call'.packet)
     IN /\ call'.row = field
        /\ call'.ret <=> field = expected_packet_
        /\ call'.ret => p_image'[field] # <<>> /\ p_image'[field].packet = call'.packet
        /\ (call'.ret /\ field = FRAME_ROWS - 1) => StartedWith(p_image', call'.packet)
        /\ call'.frames = 1 <=> (call'.ret /\ field = 0)
C24_RowIsFieldStated == [][C24_CallRowStated]_vars

\* C24: the row a frame call sequences by and writes is 31 minus the value
\* of the field at offset 16; the packet with field value 0 starts a frame
\* (row 31) and the one with field value 31 completes it (row 0).
C24_CallRow ==
  (call'.op = "frame" /\ ~call'.fault) =>
     LET field == RowField(call'.packet)
         row == FRAME_ROWS - 1 - field
     IN /\ call'.row = row
        /\ call'.ret <=> row = expected_packet_
        /\ call'.ret => p_image'[row] # <<>> /\ p_image'[row].packet = call'.packet
        /\ (call'.ret /\ field = 0) => StartedWith(p_image', call'.packet)
        /\ call'.frames = 1 <=> (call'.ret /\ field = FRAME_ROWS - 1)
C24_RowFromField == [][C24_CallRow]_vars

C24_Witness ==
  /\ FrameCall /\ call.ret /\ call.frames = 1
  /\ RowField(call.packet) = FRAME_ROWS - 1 /\ call.row = 0
  /\ RowField(pub.image[FRAME_ROWS - 1].packet) = 0

\* ------------------------------------------------------------ pixel claims

\* The 16-bit word at an offset of a packet, first byte the most significant.
WordAt(packet, off) == PacketByte(packet, off) * 256 + PacketByte(packet, off + 1)

\* The pixel decoded from the words and the byte the claimed offsets of
\* column c hold.
PixelFrom(packet, c, offset) ==
  LET flags == DecodeClass(PacketByte(packet, 92 + 1152 + c))
  IN [depth      |-> DecodeRange(WordAt(packet, 92 + 4 * c), offset),
      depth2     |-> DecodeRange(WordAt(packet, 92 + 4 * c + 2), offset),
      intensity  |-> WordAt(packet, 92 + 512 + 4 * c),
      intensity2 |-> WordAt(packet, 92 + 512 + 4 * c + 2),
      crosstalk    |-> flags.crosstalk,
      saturated    |-> flags.saturated,
      superimposed |-> flags.superimposed,
      crosstalk2   |-> flags.crosstalk2,
      saturated2   |-> flags.saturated2,
      superimposed2 |-> flags.superimposed2]

\* C25: a frame call that accepts a packet of row r writes, at every column c
\* of row r, the ranges decoded from the words at 92 + 4c and 92 + 4c + 2, the
\* words at 92 + 512 + 4c and 92 + 512 + 4c + 2 as intensities, and the flags
\* of the byte at 92 + 1152 + c, which are the values the sensor sent for
\* that pixel; every other row is as it was (unwritten after a start packet).
C25_CallWritesRow ==
  (call'.op = "frame" /\ ~call'.fault /\ call'.ret) =>
     LET packet == call'.packet
         r == call'.row
     IN /\ \A c \in 0..(FRAME_COLUMNS - 1) :
             LET px == PixelAt(p_image'[r], c)
             IN /\ px = PixelFrom(packet, c, global_offset_)
                /\ px.intensity = SensorIntensity(packet.k, r, c, 1)
                /\ px.intensity2 = SensorIntensity(packet.k, r, c, 2)
                /\ px.depth = DecodeRange(SensorRange(packet.k, r, c, 1), global_offset_)
                /\ px.depth2 = DecodeRange(SensorRange(packet.k, r, c, 2), global_offset_)
        /\ \A other \in Rows \ {r} :
             p_image'[other] = IF r = FRAME_ROWS - 1 THEN <<>> ELSE p_image[other]
C25_PixelOffsets == [][C25_CallWritesRow]_vars

\* Row 17 of frame 2 was written: its last column holds the intensities the
\* sensor sent for it, and row 18 is still the one written by the call before.
C25_Witness ==
  /\ FrameCall /\ call.ret /\ call.row = 17 /\ call.packet.k = 2
  /\ PixelAt(p_image[17], FRAME_COLUMNS - 1).intensity = SensorIntensity(2, 17, FRAME_COLUMNS - 1, 1)
  /\ PixelAt(p_image[17], FRAME_COLUMNS - 1).depth2 = DecodeRange(SensorRange(2, 17, FRAME_COLUMNS - 1, 2), 0)
  /\ p_image[18].packet.r = 18 /\ p_image[16] = <<>>

\* C26: a frame call returns to its caller, with failure exactly when it
\* reported an unexpected packet and with success otherwise; no call ends
\* the process.
C26_FrameReturns ==
  FrameCall =>
     /\ ~call.fault
     /\ call.ret = FALSE <=> call.error # <<>>

\* ---------------------------------------------------------- telemetry claims

\* The telemetry record a sensor put into a packet: the values at the fields
\* of SensorTelemetryByte.
SentRecord(packet) ==
  [uiHardwareRevision |-> packet.seed + 1,
   fSensorTemp |-> 100 * packet.id + 1,
   fHeaterTemp |-> -(100 * packet.id + 2),
   uiFrameCounter |-> packet.id,
   fADCUbattSW |-> 100 * packet.id + 4,
   fADCUbatt |-> 100 * packet.id + 5,
   fADCHeaterLens |-> 100 * packet.id + 6,
   fADCHeaterLensHigh |-> 100 * packet.id + 7,
   fADCTemp0Lens |-> 100 * packet.id + 8,
   fAcquisitionPeriod |-> 100 * packet.id + 9,
   uiTempSensorFeedback |-> packet.id,
   au8SerialNumber |-> SensorSerial(packet.seed)]

\* C27: the telemetry record after a telemetry call is the record of the
\* call's packet alone, whatever packets were ingested before it; a call
\* with the packet of the call before leaves the record as it was.
C27_CallOverwrites ==
  (call'.op = "telemetry" /\ ~call'.fault) =>
     /\ telem_' = SentRecord(call'.packet)
     /\ (call.op = "telemetry" /\ call.packet = call'.packet) => telem_' = telem_
C27_RecordOfLastPacket == [][C27_CallOverwrites]_vars

\* A packet of sensor 3 was ingested after a packet of another sensor, then
\* once more: the record is that of sensor 3.
C27_Witness ==
  /\ TelemetryCall /\ tnet = 2 /\ hdr.frame.seq = 2
  /\ call.packet.seed = 3
  /\ telem_ = SentRecord(call.packet) /\ telem_.uiHardwareRevision = 4

\* C28: once two whole frames have arrived in order, after whatever the
\* network lost before them, a frame begun by one of those two has been
\* published: the driver is alive and the images last published start with
\* the row-31 packet of one of the two frames.
C28_Resynchronised ==
  net = (LossyFrames + 2) * FRAME_ROWS =>
     /\ Alive
     /\ pub.image # <<>>
     /\ pub.image[FRAME_ROWS - 1] # <<>>
     /\ pub.image[FRAME_ROWS - 1].packet.k > LossyFrames
     /\ expected_packet_ = FRAME_ROWS - 1

\* The two frames arrived while row 12 was expected: the first of them was
\* rejected and the second was published.
C28_Witness ==
  /\ net = (LossyFrames + 2) * FRAME_ROWS
  /\ FrameCall /\ call.frames = 1
  /\ pub.image[FRAME_ROWS - 1].packet.k = LossyFrames + 2
  /\ pub.image[12].packet.k = LossyFrames + 2

\* C29: the header published with the images of a frame is the frame header
\* as it was when the frame's row-31 packet was accepted, which is the header
\* the point cloud of the frame was given then: telemetry packets ingested
\* while the frame is assembled do not change it.
C29_FrameHeaderKept ==
  (FrameCall /\ call.frames = 1) => pub.image_header = pub.cloud_header

\* C30: every row of a published frame was decoded with the same global
\* range offset.
C30_OneOffsetPerFrame ==
  (FrameCall /\ call.frames = 1) =>
     \A r \in Rows : pub.image[r].offset = pub.image[FRAME_ROWS - 1].offset

\* ------------------------------------------------------------ implicit claims

\* The ray tables initTransform computes from the intrinsics the sensor may
\* report in a start-of-frame packet.
SensorTables ==
  {InitTransform(CameraInfoOf(ReadCalibration(NthTunedPacket(0, set), 0))) : set \in CalSets}

\* C31: a frame call that projects a frame does so through a ray table that
\* initTransform built from intrinsics the sensor reported in a start-of-frame
\* packet; no frame call reads a ray table that was never built.
C31_TableBuilt ==
  FrameCall =>
     /\ ~call.fault
     /\ call.frames = 1 => pub.table.valid /\ pub.table \in SensorTables

\* The record the sensor sent as record j (0 first) of an object packet, as
\* the bytes it occupies.
SentObject(packet, j) ==
  [packet |-> packet, at |-> OBJECT_START_BYTE + j * OBJECT_RECORD_LEN, ub |-> 0]

\* C32: the list published by a call whose packet has continuation bit 1 is
\* the records collected before the call, in their order, followed by the
\* records the call decoded from its own packet, in the order of their bytes
\* in the packet; element i (0 first) carries id i; no record stays in the
\* list after the call.
C32_CallAssembles ==
  (call'.op = "object" /\ ~call'.fault /\ ContinuationBit(call'.packet) = 1) =>
     LET before == Len(objects_)
         own == Len(pub'.markers) - before
     IN /\ own >= 0 /\ own <= RecordsIn(call'.packet)
        /\ \A i \in 1..before : pub'.markers[i].object = objects_[i]
        /\ \A j \in 0..(own - 1) :
             pub'.markers[before + j + 1].object = SentObject(call'.packet, j)
        /\ \A i \in 1..Len(pub'.markers) : pub'.markers[i].id = i - 1
        /\ objects_' = <<>>

C32_BatchInArrivalOrder == [][C32_CallAssembles]_vars

\* A packet with bit 0 set published the records of an earlier packet
\* followed by its own, the last of them with the last id; the list is empty.
C32_Witness ==
  /\ ObjectCall /\ ContinuationBit(call.packet) = 1
  /\ objects_ = <<>>
  /\ RecordsIn(call.packet) > 1
  /\ Len(pub.markers) > RecordsIn(call.packet)
  /\ pub.markers[1].object.packet # call.packet
  /\ pub.markers[Len(pub.markers)].object =
       SentObject(call.packet, RecordsIn(call.packet) - 1)
  /\ pub.markers[Len(pub.markers)].id = Len(pub.markers) - 1

\* ------------------------------------------- a driver of another version

\* Versions a driver may be constructed with that are not "v1".
OtherVersions == {"v2", ""}

InitVersion ==
  /\ \E v \in OtherVersions : Constructed(v, NoCameraInfo)
  /\ global_offset_ = 0
  /\ Silent
  /\ probe = NoPattern

\* The next frame packet arrives, whole or cut short.
VersionDeliver ==
  /\ Alive /\ Sending
  /\ \E len \in ShortFrameLens \cup {FRAME_PACKET_LEN}, ub \in PastEnd :
       LET p == NthPacket(net)
       IN /\ ProcessFrameData(SensorFramePacket(p.k, p.r, len), ub, Now)
          /\ inorder' = IF len = FRAME_PACKET_LEN
                         THEN Track(inorder, p, expected_packet_)
                         ELSE NoRun
  /\ net' = net + 1
  /\ UNCHANGED <<onet, probe, tuning, tnet>>

NextVersion == VersionDeliver \/ Drop

SpecVersion == InitVersion /\ [][NextVersion]_vars

\* C33: a call of processFrameData in a driver whose version is not "v1"
\* returns true and changes nothing: the expected row, the row buffers, the
\* camera info, the ray table and the pose stay as they were, and the call
\* publishes no frame and no pose and reports no unexpected packet.
C33_CallIgnored ==
  (call'.op = "frame" /\ version_ # "v1") =>
     /\ call'.ret = TRUE /\ ~call'.fault
     /\ call'.frames = 0 /\ call'.poses = 0 /\ call'.error = <<>>
     /\ UNCHANGED <<version_, expected_packet_, global_offset_, objects_, p_image,
                    pointcloud_, ci, transform_, global_tf_, hdr, pub, wlog,
                    override, telem_>>

C33_OtherVersionIgnored == [][C33_CallIgnored]_vars

\* The 32 packets of a frame arrived one after the other, the last of them
\* handled by this call; the driver is as it was constructed.
C33_Witness ==
  /\ version_ # "v1"
  /\ FrameCall /\ call.ret /\ call.size = FRAME_PACKET_LEN
  /\ inorder.n = FRAME_ROWS
  /\ expected_packet_ = InitialExpected
  /\ p_image = <<>> /\ pub.image = <<>> /\ pub.cloud_header.seq = -1
  /\ ~wlog.broken

\* C34: after a telemetry call every scalar field of the record is the value
\* at its offset in the packet: the two 32-bit integers at 0 and 12 converted
\* from big-endian, the floats at 4, 8, ..., 36 and the byte at 40 as they
\* are; the heater temperature is the float at 8, its sign included.
C34_FieldsAsSent ==
  TelemetryCall =>
     /\ telem_.uiHardwareRevision = BE32(call.packet, 0, 0)
     /\ telem_.fSensorTemp = F32(call.packet, 4, 0)
     /\ telem_.fHeaterTemp = F32(call.packet, 8, 0)
     /\ telem_.uiFrameCounter = BE32(call.packet, 12, 0)
     /\ telem_.fADCUbattSW = F32(call.packet, 16, 0)
     /\ telem_.fADCUbatt = F32(call.packet, 20, 0)
     /\ telem_.fADCHeaterLens = F32(call.packet, 24, 0)
     /\ telem_.fADCHeaterLensHigh = F32(call.packet, 28, 0)
     /\ telem_.fADCTemp0Lens = F32(call.packet, 32, 0)
     /\ telem_.fAcquisitionPeriod = F32(call.packet, 36, 0)
     /\ telem_.uiTempSensorFeedback = At(call.packet, 40, 0)

====
